---- MODULE Spec2Model ----
(***************************************************************************)
(* Forex Shield (src/app.py): a Streamlit page that, on every script run,  *)
(* checks the rollover window, fetches (cached) calendar news and market   *)
(* data, shows one master status, a momentum gauge and an ATR calculator.  *)
(*                                                                         *)
(* Units.  Time is in seconds; an instant is the number of seconds since   *)
(* Monday 00:00 US/Eastern wall clock.  Prices are in ticks of 0.0001.     *)
(* Text is a sequence of one-character strings.  A float that is a ratio   *)
(* is the record [num, den]; NaN is 0/0.  Python's None is the empty       *)
(* tuple and a present optional value v is <<v>>.                          *)
(***************************************************************************)
EXTENDS Integers, Sequences, FiniteSets, TLC

VARIABLES now, rigaOffset, session_state, query_params, news_cache,
          market_cache, page, hist, call, ret

vars == <<now, rigaOffset, session_state, query_params, news_cache,
          market_cache, page, hist, call, ret>>

---------------------------------------------------------------------------
(* Bounds of the model *)

\* longest daily bar series the provider returns in SpecATR
MaxBars == 19
\* minutes of wall-clock time the page is followed for in Spec
MaxElapsed == 61
\* calendar rows per response in SpecNews
MaxRows == 2

---------------------------------------------------------------------------
(* Program constants *)

\* ttl of the two st.cache_data caches, in seconds
NEWS_TTL == 3600
MARKET_TTL == 1800
\* the rollover window, in minutes of the US/Eastern day
start_minutes == 16 * 60 + 50
end_minutes == 18 * 60 + 5
\* rolling(window=14) of the ATR and period=14 of the RSI
ATR_WINDOW == 14
RSI_PERIOD == 14
\* the 24-hour lookahead, in seconds
DAY_SECONDS == 86400
\* default multipliers 0.20 and 0.15, in hundredths
DEFAULT_SL == 20
DEFAULT_TP == 15

None == <<>>
Some(v) == <<v>>

---------------------------------------------------------------------------
(* Text *)

Digits == {"0","1","2","3","4","5","6","7","8","9"}

DigitVal(c) ==
    CASE c = "0" -> 0 [] c = "1" -> 1 [] c = "2" -> 2 [] c = "3" -> 3
      [] c = "4" -> 4 [] c = "5" -> 5 [] c = "6" -> 6 [] c = "7" -> 7
      [] c = "8" -> 8 [] c = "9" -> 9

UpperToLower ==
    ("A" :> "a") @@ ("B" :> "b") @@ ("C" :> "c") @@ ("D" :> "d") @@
    ("E" :> "e") @@ ("F" :> "f") @@ ("G" :> "g") @@ ("H" :> "h") @@
    ("I" :> "i") @@ ("J" :> "j") @@ ("K" :> "k") @@ ("L" :> "l") @@
    ("M" :> "m") @@ ("N" :> "n") @@ ("O" :> "o") @@ ("P" :> "p") @@
    ("Q" :> "q") @@ ("R" :> "r") @@ ("S" :> "s") @@ ("T" :> "t") @@
    ("U" :> "u") @@ ("V" :> "v") @@ ("W" :> "w") @@ ("X" :> "x") @@
    ("Y" :> "y") @@ ("Z" :> "z")

\* str.lower()
Lower(s) ==
    [i \in 1..Len(s) |->
        IF s[i] \in DOMAIN UpperToLower THEN UpperToLower[s[i]] ELSE s[i]]

\* `sub in s` for strings (the arguments are evaluated once, as v and w)
Contains(s, sub) ==
    \E v \in {s}, w \in {sub} :
        \E i \in 0..(Len(v) - Len(w)) : SubSeq(v, i + 1, i + Len(w)) = w

StripValue(v) ==
    IF \A i \in 1..Len(v) : v[i] = " " THEN <<>>
    ELSE SubSeq(v,
                CHOOSE i \in 1..Len(v) :
                    v[i] # " " /\ \A j \in 1..(i - 1) : v[j] = " ",
                CHOOSE i \in 1..Len(v) :
                    v[i] # " " /\ \A j \in (i + 1)..Len(v) : v[j] = " ")

\* str.strip() (the whitespace of the calendar cells is the blank)
Strip(s) == CHOOSE r \in {StripValue(v) : v \in {s}} : TRUE

\* pair.split("/")
RECURSIVE Split(_)
Split(s) ==
    LET cut == {i \in 1..Len(s) : s[i] = "/"}
    IN  IF cut = {} THEN <<s>>
        ELSE LET c == CHOOSE i \in cut : \A j \in cut : i <= j
             IN  <<SubSeq(s, 1, c - 1)>> \o Split(SubSeq(s, c + 1, Len(s)))

SeqToSet(s) == {s[i] : i \in 1..Len(s)}

---------------------------------------------------------------------------
(* Constants & configuration (app.py 14-37, 194) *)

EURUSD == <<"E","U","R","/","U","S","D">>
USDJPY == <<"U","S","D","/","J","P","Y">>
Pairs == {EURUSD, USDJPY}

IMPORTANT_KEYWORDS ==
    << <<"C","P","I">>,
       <<"C","o","n","s","u","m","e","r"," ","P","r","i","c","e"," ","I","n","d","e","x">>,
       <<"G","D","P">>,
       <<"G","r","o","s","s"," ","D","o","m","e","s","t","i","c"," ","P","r","o","d","u","c","t">>,
       <<"N","o","n","f","a","r","m">>,
       <<"N","o","n","-","F","a","r","m">>,
       <<"P","a","y","r","o","l","l">>,
       <<"U","n","e","m","p","l","o","y","m","e","n","t"," ","R","a","t","e">>,
       <<"I","n","t","e","r","e","s","t"," ","R","a","t","e">>,
       <<"P","o","l","i","c","y"," ","R","a","t","e">>,
       <<"M","i","n","i","m","u","m"," ","B","i","d"," ","R","a","t","e">>,
       <<"F","O","M","C">>,
       <<"M","o","n","e","t","a","r","y"," ","P","o","l","i","c","y">>,
       <<"S","p","e","a","k","s">>,
       <<"T","e","s","t","i","f","i","e","s">>,
       <<"C","h","a","i","r">>,
       <<"P","r","e","s","i","d","e","n","t">>,
       <<"H","o","l","i","d","a","y">>,
       <<"C","l","o","s","e","d">>,
       <<"O","b","s","e","r","v","a","n","c","e">> >>

\* pip unit in ticks of 0.0001: 0.01 is 100 ticks, 0.0001 is 1 tick
get_pip_unit(pair) ==
    IF Contains(pair, <<"J","P","Y">>) THEN 100 ELSE 1

symbol_map(pair) == IF pair = EURUSD THEN "EURUSD=X" ELSE "JPY=X"

---------------------------------------------------------------------------
(* Clock *)

\* datetime.now(ny_tz): hour * 60 + minute
NyMinuteOfDay(t) == (t % DAY_SECONDS) \div 60

\* datetime.now(est).date(), as the instant of its midnight
NyToday(t) == (t \div DAY_SECONDS) * DAY_SECONDS

\* strftime("%H:%M") of an instant in Europe/Riga, as minute of the day;
\* off is the offset of Europe/Riga from US/Eastern in seconds
RigaHHMM(t, off) == ((t + off) % DAY_SECONDS) \div 60

\* weekday() of an instant in Europe/Riga: 0 is Monday, 5 Saturday, 6 Sunday
RigaWeekday(t, off) == ((t + off) \div DAY_SECONDS) % 7

---------------------------------------------------------------------------
(* convert_to_latvia_time: strptime "%I:%M %p" on today's US/Eastern date *)

IsDigits(s) == \A i \in 1..Len(s) : s[i] \in Digits

RECURSIVE Number(_)
Number(s) ==
    IF s = <<>> THEN 0
    ELSE 10 * Number(SubSeq(s, 1, Len(s) - 1)) + DigitVal(s[Len(s)])

\* the minute of the day of a 12-hour clock text, or None when strptime raises
\* (ParseClock evaluates its argument once and hands the value on)
ParseClockValue(s) ==
    IF \A i \in 1..Len(s) : s[i] # ":" THEN None
        ELSE
        LET c == CHOOSE i \in 1..Len(s) :
                    s[i] = ":" /\ \A j \in 1..(i - 1) : s[j] # ":"
            hs == SubSeq(s, 1, c - 1)
            rest == SubSeq(s, c + 1, Len(s))
            two == /\ Len(rest) >= 2
                   /\ rest[1] \in {"0","1","2","3","4","5"}
                   /\ rest[2] \in Digits
            k == IF two THEN 2 ELSE 1
            ms == SubSeq(rest, 1, k)
            tail == SubSeq(rest, k + 1, Len(rest))
            ap == Lower(Strip(tail))
        IN  IF /\ Len(hs) \in {1, 2}
               /\ IsDigits(hs)
               /\ Number(hs) \in 1..12
               /\ Len(ms) = k
               /\ IsDigits(ms)
               /\ Len(tail) >= 3
               /\ tail[1] = " "
               /\ tail[Len(tail)] # " "
               /\ ap \in {<<"a","m">>, <<"p","m">>}
            THEN Some((Number(hs) % 12) * 60 + Number(ms)
                      + (IF ap = <<"p","m">> THEN 720 ELSE 0))
            ELSE None

ParseClock(s) == CHOOSE r \in {ParseClockValue(v) : v \in {s}} : TRUE

\* the instant of the event, or None
convert_to_latvia_time(time_str_est, t) ==
    CHOOSE r \in {IF m = None THEN None ELSE Some(NyToday(t) + 60 * m[1]) :
                    m \in {ParseClock(time_str_est)}} : TRUE

---------------------------------------------------------------------------
(* Data engine 1: fetch_news (app.py 61-113) *)

Abs(x) == IF x < 0 THEN -x ELSE x

\* k.lower() for k in IMPORTANT_KEYWORDS
LowerKeywords ==
    [i \in 1..Len(IMPORTANT_KEYWORDS) |-> Lower(IMPORTANT_KEYWORDS[i])]

is_important(event_name) ==
    \E name \in {Lower(event_name)} :
        \E i \in 1..Len(LowerKeywords) : Contains(name, LowerKeywords[i])

\* which list one calendar row goes to: "skip", "passed" or "upcoming"
\* the tests on a row whose time parsed to the instant event_dt[1]
\* TimeClass with an event exactly 60 minutes old already passed
TimeClass_AtSixtyMinutes(event_dt, t) ==
    IF event_dt = None THEN "skip"
    ELSE IF Abs(event_dt[1] - t) > DAY_SECONDS THEN "skip"
    ELSE IF t >= event_dt[1] + 60 * 60 THEN "passed"
    ELSE "upcoming"

TimeClass(event_dt, t) ==
    IF event_dt = None THEN "skip"
    ELSE IF Abs(event_dt[1] - t) > DAY_SECONDS THEN "skip"
    ELSE IF t > event_dt[1] + 60 * 60 THEN "passed"
    ELSE "upcoming"

RowClass(cols, relevant_currencies, t) ==
    IF Len(cols) < 4 THEN "skip"
    ELSE
    LET time_text == Strip(cols[1])
        currency == Strip(cols[2])
        event_name == Strip(cols[4])
    IN  IF currency \notin SeqToSet(relevant_currencies) THEN "skip"
        ELSE IF ~is_important(event_name) THEN "skip"
        ELSE CHOOSE c \in {TimeClass(event_dt, t) :
                           event_dt \in {convert_to_latvia_time(time_text, t)}} : TRUE

event_obj(cols, t, off) ==
    [time |-> RigaHHMM(convert_to_latvia_time(Strip(cols[1]), t)[1], off),
     currency |-> Strip(cols[2]),
     event |-> Strip(cols[4])]

\* the rows of the response that go to list `which`, in order
RECURSIVE Collect(_, _, _, _, _)
Collect(rows, relevant_currencies, t, off, which) ==
    IF rows = <<>> THEN <<>>
    ELSE (IF RowClass(Head(rows), relevant_currencies, t) = which
          THEN <<event_obj(Head(rows), t, off)>> ELSE <<>>)
         \o Collect(Tail(rows), relevant_currencies, t, off, which)

\* response: [kind |-> "raise"] when requests.get or the parser raises,
\* else [kind |-> "http", status_code |-> ..., rows |-> ...].
\* Result: <<upcoming, passed, news_error, fetch_time>>
\* fetch_news with a failed request reported as an empty calendar
fetch_news_SilentFailure(pair, response, t, off) ==
    IF response.kind = "raise" \/ response.status_code # 200
    THEN <<<<>>, <<>>, FALSE, RigaHHMM(t, off)>>
    ELSE <<Collect(response.rows, Split(pair), t, off, "upcoming"),
           Collect(response.rows, Split(pair), t, off, "passed"),
           FALSE, RigaHHMM(t, off)>>

fetch_news(pair, response, t, off) ==
    LET relevant_currencies == Split(pair)
        fetch_time == RigaHHMM(t, off)
    IN  IF response.kind = "raise" THEN <<<<>>, <<>>, TRUE, fetch_time>>
        ELSE IF response.status_code # 200
        THEN <<<<>>, <<>>, TRUE, fetch_time>>
        ELSE <<Collect(response.rows, relevant_currencies, t, off, "upcoming"),
               Collect(response.rows, relevant_currencies, t, off, "passed"),
               FALSE, fetch_time>>

---------------------------------------------------------------------------
(* Data engine 2: get_market_data (app.py 39-44, 117-154) *)

Max2(a, b) == IF a >= b THEN a ELSE b

NaN == [num |-> 0, den |-> 0]
IsNaN(x) == x.den = 0

\* df_daily['TR']: max(axis=1) skips the NaN of the first bar's shift(1)
TR(daily, i) ==
    LET h_l == daily[i].High - daily[i].Low
    IN  IF i = 1 THEN h_l
        ELSE Max2(h_l, Max2(Abs(daily[i].High - daily[i - 1].Close),
                            Abs(daily[i].Low - daily[i - 1].Close)))

RECURSIVE SumTR(_, _, _)
SumTR(daily, lo, hi) ==
    IF lo > hi THEN 0 ELSE TR(daily, hi) + SumTR(daily, lo, hi - 1)

\* df_daily['ATR'] at row i (1-based), times ATR_WINDOW; NaN for short windows
ATR(daily, i) ==
    IF i < ATR_WINDOW THEN NaN
    ELSE [num |-> SumTR(daily, i - ATR_WINDOW + 1, i), den |-> ATR_WINDOW]

\* row index of df_daily['ATR'].iloc[-2]
\* AtrRow reading the last, still forming bar (iloc[-1])
AtrRow_LastBar(daily) == Len(daily)

AtrRow(daily) == Len(daily) - 1

\* current_atr_val / pip_unit
PipDiv(x, pip_unit) ==
    IF IsNaN(x) THEN NaN ELSE [num |-> x.num, den |-> x.den * pip_unit]

\* delta = series.diff(); where(delta > 0, 0) and -where(delta < 0, 0)
Gain(closes, i) ==
    IF i = 1 THEN 0 ELSE Max2(closes[i] - closes[i - 1], 0)
Loss(closes, i) ==
    IF i = 1 THEN 0 ELSE Max2(closes[i - 1] - closes[i], 0)

RECURSIVE SumGain(_, _, _)
SumGain(closes, lo, hi) ==
    IF lo > hi THEN 0 ELSE Gain(closes, hi) + SumGain(closes, lo, hi - 1)
RECURSIVE SumLoss(_, _, _)
SumLoss(closes, lo, hi) ==
    IF lo > hi THEN 0 ELSE Loss(closes, hi) + SumLoss(closes, lo, hi - 1)

\* calculate_rsi(series).iloc[-1]: 100 - 100 / (1 + gain / loss)
calculate_rsi(closes) ==
    LET n == Len(closes)
        g == SumGain(closes, n - RSI_PERIOD + 1, n)
        l == SumLoss(closes, n - RSI_PERIOD + 1, n)
    IN  IF n < RSI_PERIOD THEN NaN
        ELSE IF l = 0 THEN (IF g = 0 THEN NaN ELSE [num |-> 100, den |-> 1])
        ELSE [num |-> 100 * g, den |-> g + l]

\* str(e) of the IndexError of .iloc[-2] on a one-row frame
OutOfBounds == "single positional indexer is out-of-bounds"

\* outcome: [kind |-> "raise", msg |-> str(e)] when yf.download raises,
\* else [kind |-> "data", daily |-> bars, m30 |-> closes]
get_market_data(symbol, pip_unit, outcome) ==
    IF outcome.kind = "raise" THEN [error |-> Some(outcome.msg)]
    ELSE IF outcome.daily = <<>> \/ outcome.m30 = <<>>
    THEN [error |-> Some("No data returned from Yahoo Finance.")]
    ELSE IF AtrRow(outcome.daily) < 1 THEN [error |-> Some(OutOfBounds)]
    ELSE [atr_pips |-> PipDiv(ATR(outcome.daily, AtrRow(outcome.daily)), pip_unit),
          rsi_m30 |-> calculate_rsi(outcome.m30),
          error |-> None]

---------------------------------------------------------------------------
(* st.cache_data: one store per decorated function, keyed by the call's   *)
(* arguments; an entry is served while its age is below the ttl           *)
(* (app.py 61, 117, 162)                                                  *)

\* CacheFresh with an entry still served when its age equals the ttl
CacheFresh_Inclusive(cache, key, t, ttl) ==
    key \in DOMAIN cache /\ t - cache[key].stored <= ttl

CacheFresh(cache, key, t, ttl) ==
    key \in DOMAIN cache /\ t - cache[key].stored < ttl

CachePut(cache, key, value, t) ==
    [k \in DOMAIN cache \cup {key} |->
        IF k = key THEN [value |-> value, stored |-> t] ELSE cache[k]]

\* st.cache_data.clear(): every entry of every cached function
CacheClear(cache) == <<>>

\* fetch_news(pair) through @st.cache_data(ttl=3600)
cached_fetch_news(cache, pair, response, t, off) ==
    IF CacheFresh(cache, pair, t, NEWS_TTL)
    THEN [value |-> cache[pair].value, cache |-> cache, fetched |-> FALSE]
    ELSE LET v == fetch_news(pair, response, t, off)
         IN  [value |-> v, cache |-> CachePut(cache, pair, v, t), fetched |-> TRUE]

\* get_market_data(symbol, pip_unit) through @st.cache_data(ttl=1800)
cached_get_market_data(cache, symbol, pip_unit, outcome, t) ==
    LET key == <<symbol, pip_unit>>
    IN  IF CacheFresh(cache, key, t, MARKET_TTL)
        THEN [value |-> cache[key].value, cache |-> cache, fetched |-> FALSE]
        ELSE LET v == get_market_data(symbol, pip_unit, outcome)
             IN  [value |-> v, cache |-> CachePut(cache, key, v, t), fetched |-> TRUE]

---------------------------------------------------------------------------
(* Query parameters: a float is stored as str(float) and read with float() *)

DigitChar(d) ==
    CASE d = 0 -> "0" [] d = 1 -> "1" [] d = 2 -> "2" [] d = 3 -> "3"
      [] d = 4 -> "4" [] d = 5 -> "5" [] d = 6 -> "6" [] d = 7 -> "7"
      [] d = 8 -> "8" [] d = 9 -> "9"

RECURSIVE NatStr(_)
NatStr(n) ==
    IF n < 10 THEN <<DigitChar(n)>>
    ELSE NatStr(n \div 10) \o <<DigitChar(n % 10)>>

\* str(x) of the float x = n / 100, n >= 0: shortest repr, "0.2", "0.25", "1.0"
FloatStr(n) ==
    NatStr(n \div 100) \o <<".">> \o
    (IF n % 10 = 0 THEN <<DigitChar((n % 100) \div 10)>>
     ELSE <<DigitChar((n % 100) \div 10), DigitChar(n % 10)>>)

\* float(s), in hundredths, of a text with one or two decimals
ParseFloat(s) ==
    LET dot == CHOOSE i \in 1..Len(s) : s[i] = "."
        frac == SubSeq(s, dot + 1, Len(s))
    IN  100 * Number(SubSeq(s, 1, dot - 1))
        + 10 * DigitVal(frac[1])
        + (IF Len(frac) >= 2 THEN DigitVal(frac[2]) ELSE 0)

\* float(qp.get(key, default))
QpFloat(qp, key, default) ==
    IF key \in DOMAIN qp THEN ParseFloat(qp[key]) ELSE default

\* update_params: the on_change callback of both number inputs
\* update_params storing the stop-loss multiplier alone
update_params_SlOnly(ss, qp) ==
    [k \in DOMAIN qp \cup {"sl"} |->
        IF k = "sl" THEN FloatStr(ss.sl_mult) ELSE qp[k]]

update_params(ss, qp) ==
    [k \in DOMAIN qp \cup {"sl", "tp"} |->
        IF k = "sl" THEN FloatStr(ss.sl_mult)
        ELSE IF k = "tp" THEN FloatStr(ss.tp_mult)
        ELSE qp[k]]

\* update_pair: the on_change callback of the radio
update_pair(ss, pair_widget) ==
    [k \in DOMAIN ss \cup {"pair_selection"} |->
        IF k = "pair_selection" THEN pair_widget ELSE ss[k]]

\* Streamlit drops the state of the widgets a finished run did not render
DropKeys(ss, keys) == [k \in DOMAIN ss \ keys |-> ss[k]]

CalcKeys == {"sl_mult", "tp_mult"}

---------------------------------------------------------------------------
(* The page script (app.py 158-318) *)

\* bool(x) of a str-or-None value
Truthy(x) == x # None /\ x[1] # ""

\* bool(d) of a dict
DictTruthy(d) == DOMAIN d # {}

\* A. Rollover Check
\* is_rollover with the window closed at 18:05:00
is_rollover_ExclusiveEnd(t) ==
    start_minutes <= NyMinuteOfDay(t) /\ NyMinuteOfDay(t) < end_minutes

is_rollover(t) ==
    start_minutes <= NyMinuteOfDay(t) /\ NyMinuteOfDay(t) <= end_minutes

market_data_healthy(market_data) ==
    DictTruthy(market_data) /\ ~Truthy(market_data.error)

\* MASTER STATUS DISPLAY: the if/elif chain
\* master_status with the data-health test ahead of the news tests
master_status_HealthFirst(rollover, news_error, upcoming_news, healthy) ==
    IF rollover THEN "NO TRADE (Rollover)"
    ELSE IF ~healthy THEN "System Error: Market Data Failed"
    ELSE IF news_error THEN "Connection Failed"
    ELSE IF upcoming_news # <<>> THEN "DANGER: High Impact News"
    ELSE "SAFE TO TRADE"

master_status(rollover, news_error, upcoming_news, healthy) ==
    IF rollover THEN "NO TRADE (Rollover)"
    ELSE IF news_error THEN "Connection Failed"
    ELSE IF upcoming_news # <<>> THEN "DANGER: High Impact News"
    ELSE IF ~healthy THEN "System Error: Market Data Failed"
    ELSE "SAFE TO TRADE"

\* rsi < c for a ratio; every comparison with NaN is False
RatioLt(x, c) == ~IsNaN(x) /\ x.num < c * x.den
RatioGt(x, c) == ~IsNaN(x) /\ x.num > c * x.den

\* SECTION 2: what the momentum gauge shows, or the KeyError it raises
momentum(market_data) ==
    IF ~DictTruthy(market_data) THEN "Could not verify Market Data"
    ELSE IF Truthy(market_data.error) THEN "Data Error"
    ELSE IF "rsi_m30" \notin DOMAIN market_data THEN "KeyError: 'rsi_m30'"
    ELSE LET rsi == market_data.rsi_m30
         IN  IF RatioLt(rsi, 25) THEN "EXTREME DOWN"
             ELSE IF RatioLt(rsi, 30) THEN "OVERSOLD"
             ELSE IF RatioGt(rsi, 75) THEN "EXTREME UP"
             ELSE IF RatioGt(rsi, 70) THEN "OVERBOUGHT"
             ELSE "NORMAL"

\* atr_pips * multiplier, the multiplier in hundredths
Times(x, mult) ==
    IF IsNaN(x) THEN NaN ELSE [num |-> x.num * mult, den |-> x.den * 100]

\* SECTION 3: session state after the initialisation of the multipliers
init_params(ss, qp) ==
    IF "sl_mult" \in DOMAIN ss THEN ss
    ELSE [k \in DOMAIN ss \cup CalcKeys |->
            IF k = "sl_mult" THEN QpFloat(qp, "sl", DEFAULT_SL)
            ELSE IF k = "tp_mult" THEN QpFloat(qp, "tp", DEFAULT_TP)
            ELSE ss[k]]

\* Robust Session State for Pair Selection
init_pair(ss) ==
    IF "pair_selection" \in DOMAIN ss THEN ss
    ELSE [k \in DOMAIN ss \cup {"pair_selection"} |->
            IF k = "pair_selection" THEN EURUSD ELSE ss[k]]

---------------------------------------------------------------------------
(* What the environment can answer *)

Bar(h, l, c) == [High |-> h, Low |-> l, Close |-> c]

\* the daily bar of day i of a quiet market, in ticks
BaseBar(i) ==
    IF i % 2 = 0 THEN Bar(10900, 10800, 10850) ELSE Bar(10880, 10820, 10830)

BaseDaily(n) == [i \in 1..n |-> BaseBar(i)]

\* fifteen 30-minute closes, rising then falling
SampleM30 ==
    <<10850, 10852, 10851, 10855, 10858, 10856, 10860, 10862,
      10861, 10865, 10866, 10864, 10868, 10870, 10869>>

Raises(msg) == [kind |-> "raise", msg |-> msg, daily |-> <<>>, m30 |-> <<>>]
Data(daily, m30) == [kind |-> "data", msg |-> "", daily |-> daily, m30 |-> m30]

MarketOutcomes ==
    { Raises(""), Raises("Read timed out."), Data(<<>>, <<>>),
      Data(BaseDaily(16), SampleM30) }

Text0330 == <<"0","3",":","3","0"," ","P","M">>
TextUSD == <<"U","S","D">>
TextCPI == <<"C","o","r","e"," ","C","P","I"," ","m","/","m">>
TextRetail == <<"R","e","t","a","i","l"," ","S","a","l","e","s">>

\* a calendar row: the texts of its cells (time, currency, impact, event)
Row(time_text, currency, event_name) ==
    <<time_text, currency, <<>>, event_name>>

Http(status_code, rows) ==
    [kind |-> "http", status_code |-> status_code, rows |-> rows]

NewsRaises == [kind |-> "raise", status_code |-> 0, rows |-> <<>>]
QuietCalendar == Http(200, <<Row(Text0330, TextUSD, TextRetail)>>)

NewsResponses ==
    { NewsRaises, Http(503, <<>>), QuietCalendar,
      Http(200, <<Row(Text0330, TextUSD, TextCPI)>>) }

OutcomeCause(outcome) ==
    IF outcome.kind = "raise" THEN "raise"
    ELSE IF outcome.daily = <<>> \/ outcome.m30 = <<>> THEN "empty"
    ELSE "data"

ResponseFailed(response) ==
    response.kind = "raise" \/ response.status_code # 200

\* Monday 16:20 US/Eastern, half an hour before the rollover window
StartTime == 16 * 3600 + 20 * 60

\* Spec follows the caches: a calendar with news or a failed request, market
\* data or a failed download; one multiplier edit
AppEnv ==
    [responses |-> {NewsRaises, Http(503, <<>>),
                    Http(200, <<Row(Text0330, TextUSD, TextCPI)>>)},
     outcomes |-> {Raises("Read timed out."), Data(BaseDaily(16), SampleM30)},
     widgets |-> {"sl_mult"}, multipliers |-> {25}, queries |-> {<<>>},
     offsets |-> {MARKET_TTL - 1, MARKET_TTL, NEWS_TTL}]

\* SpecParams follows the multipliers: a quiet calendar, market data that is
\* there, fails with a message or fails with none; several edits; a page
\* opened with or without stored parameters
ParamsEnv ==
    [responses |-> {QuietCalendar},
     outcomes |-> {Raises(""), Data(<<>>, <<>>), Data(BaseDaily(16), SampleM30)},
     widgets |-> {"sl_mult", "tp_mult"}, multipliers |-> {10, 25},
     queries |-> {<<>>, [sl |-> FloatStr(50)]},
     offsets |-> {MARKET_TTL}]

---------------------------------------------------------------------------
(* What one run of the script shows (app.py 203-318), given the session    *)
(* state ss after init_pair, the query parameters, the time t of the run   *)
(* and the two results it was handed; and the session state it leaves.     *)

Compose(ss, qp, t, news, market_data) ==
    LET upcoming_news == news[1]
        passed_news == news[2]
        news_error == news[3]
        last_update == news[4]
        healthy == market_data_healthy(market_data)
        master == master_status(is_rollover(t), news_error, upcoming_news, healthy)
        gauge == momentum(market_data)
        fault == gauge = "KeyError: 'rsi_m30'"
        show_calc == ~fault /\ DictTruthy(market_data) /\ ~Truthy(market_data.error)
        ss2 == IF show_calc THEN init_params(ss, qp) ELSE ss
    IN  [page |->
            [master |-> master,
             upcoming |-> IF master = "DANGER: High Impact News"
                          THEN upcoming_news ELSE <<>>,
             passed |-> passed_news,
             last_update |-> last_update,
             momentum |-> gauge,
             calc |-> IF show_calc
                      THEN Some([atr_pips |-> market_data.atr_pips,
                                 sl_dist |-> Times(market_data.atr_pips, ss2.sl_mult),
                                 tp_dist |-> Times(market_data.atr_pips, ss2.tp_mult)])
                      ELSE None,
             fault |-> fault],
         \* an uncaught exception ends the run prematurely: widget state is kept
         session_state |-> IF fault \/ show_calc THEN ss2
                           ELSE DropKeys(ss2, CalcKeys)]

---------------------------------------------------------------------------
(* One run of the page script.  ss, qp, nc, mc: session state, query       *)
(* parameters and the two caches as the callbacks before the run left      *)
(* them; h: the history so far; act: the interaction that caused the run.  *)

Script(ss, qp, nc, mc, h, act, response, outcome) ==
    LET ss1 == init_pair(ss)
        pair == ss1.pair_selection
        ticker == symbol_map(pair)
        pip_unit == get_pip_unit(pair)
        key == <<ticker, pip_unit>>
    IN
    \E n \in {cached_fetch_news(nc, pair, response, now, rigaOffset)},
       m \in {cached_get_market_data(mc, ticker, pip_unit, outcome, now)} :
    \E shown \in {Compose(ss1, qp, now, n.value, m.value)} :
    LET news_fresh == /\ pair \in DOMAIN h.last_news
                      /\ now - h.last_news[pair].at < NEWS_TTL
        market_fresh == /\ key \in DOMAIN h.last_market
                        /\ now - h.last_market[key].at < MARKET_TTL
        \* the log of the provider fetches since the last clear
        news_rec == IF n.fetched \/ pair \notin DOMAIN h.last_news
                    THEN [at |-> now, failed |-> ResponseFailed(response)]
                    ELSE h.last_news[pair]
        market_rec == IF m.fetched \/ key \notin DOMAIN h.last_market
                      THEN [at |-> now, value |-> m.value,
                            cause |-> OutcomeCause(outcome)]
                      ELSE h.last_market[key]
    IN  /\ session_state' = shown.session_state
        /\ query_params' = qp
        /\ news_cache' = n.cache
        /\ market_cache' = m.cache
        /\ page' = shown.page
        /\ hist' = [h EXCEPT
                      !.action = act,
                      !.at = now,
                      !.news = [key |-> pair, fetched |-> n.fetched,
                                fresh |-> news_fresh, value |-> n.value,
                                failed |-> news_rec.failed],
                      !.market = [key |-> key, fetched |-> m.fetched,
                                  fresh |-> market_fresh, value |-> m.value,
                                  before |-> IF key \in DOMAIN h.last_market
                                             THEN Some(h.last_market[key].value)
                                             ELSE None,
                                  cause |-> market_rec.cause],
                      !.last_news = [k \in DOMAIN h.last_news \cup {pair} |->
                                        IF k = pair THEN news_rec ELSE h.last_news[k]],
                      !.last_market = [k \in DOMAIN h.last_market \cup {key} |->
                                        IF k = key THEN market_rec ELSE h.last_market[k]]]
        /\ UNCHANGED <<now, rigaOffset, call, ret>>

\* the answers that matter to a call: none is asked for when the cache serves it
Answers(all, served) == IF served THEN {CHOOSE x \in all : TRUE} ELSE all

\* any script run: the provider answers are the environment's choice
Run(env, ss, qp, nc, mc, h, act) ==
    LET pair == init_pair(ss).pair_selection
        key == <<symbol_map(pair), get_pip_unit(pair)>>
    IN  \E response \in Answers(env.responses, CacheFresh(nc, pair, now, NEWS_TTL)),
           outcome \in Answers(env.outcomes, CacheFresh(mc, key, now, MARKET_TTL)) :
            Script(ss, qp, nc, mc, h, act, response, outcome)

NoPage ==
    [master |-> "", upcoming |-> <<>>, passed |-> <<>>, last_update |-> 0,
     momentum |-> "", calc |-> None, fault |-> FALSE]

OptionOf(qp, key) == IF key \in DOMAIN qp THEN Some(ParseFloat(qp[key])) ELSE None

\* before the page is first opened
InitApp(env) ==
    /\ now = StartTime
    /\ rigaOffset = 7 * 3600
    /\ session_state = <<>>
    /\ query_params \in env.queries
    /\ news_cache = <<>>
    /\ market_cache = <<>>
    /\ page = NoPage
    /\ hist = [action |-> "", at |-> now,
               entered_sl |-> OptionOf(query_params, "sl"),
               entered_tp |-> OptionOf(query_params, "tp"),
               news |-> <<>>, market |-> <<>>,
               last_news |-> <<>>, last_market |-> <<>>]
    /\ call = <<>>
    /\ ret = <<>>

Loaded == hist.action # ""

\* time passes, up to one of the instants (in seconds after the start) at
\* which the user comes back to the page
Tick(env) ==
    \E d \in env.offsets :
        /\ d <= MaxElapsed * 60
        /\ StartTime + d > now
        /\ now' = StartTime + d
        /\ UNCHANGED <<rigaOffset, session_state, query_params, news_cache,
                       market_cache, page, hist, call, ret>>

\* the page is opened or reloaded: a new session on the current query string
Reload(env) ==
    Run(env, <<>>, query_params, news_cache, market_cache, hist, "Run")

\* a rerun with no callback
Rerun(env) ==
    /\ Loaded
    /\ Run(env, session_state, query_params, news_cache, market_cache, hist, "Run")

\* the Refresh button: clear the caches, st.rerun() ends the run after the
\* button alone was rendered, and the script runs again
Refresh(env) ==
    /\ Loaded
    /\ Run(env, DropKeys(session_state, CalcKeys), query_params,
           CacheClear(news_cache), CacheClear(market_cache),
           [hist EXCEPT !.last_news = <<>>, !.last_market = <<>>],
           "Refresh")

\* the radio changes: update_pair, then the script
SelectPair(env) ==
    /\ Loaded
    /\ \E p \in Pairs :
        /\ p # session_state.pair_selection
        /\ Run(env, update_pair(session_state, p), query_params, news_cache,
               market_cache, hist, "Run")

\* one of the two number inputs changes: update_params, then the script
EditMultiplier(env) ==
    /\ Loaded
    /\ page.calc # None
    /\ \E widget \in env.widgets, v \in env.multipliers :
        /\ v # session_state[widget]
        /\ LET ss == [session_state EXCEPT ![widget] = v]
               h == IF widget = "sl_mult"
                    THEN [hist EXCEPT !.entered_sl = Some(v)]
                    ELSE [hist EXCEPT !.entered_tp = Some(v)]
           IN  Run(env, ss, update_params(ss, query_params), news_cache,
                   market_cache, h, "Edit")

Init == InitApp(AppEnv)

Next ==
    \/ Tick(AppEnv)
    \/ Reload(AppEnv)
    \/ Rerun(AppEnv)
    \/ Refresh(AppEnv)
    \/ SelectPair(AppEnv)
    \/ EditMultiplier(AppEnv)

Spec == Init /\ [][Next]_vars

InitParams == InitApp(ParamsEnv)

NextParams ==
    \/ Tick(ParamsEnv)
    \/ Reload(ParamsEnv)
    \/ Rerun(ParamsEnv)
    \/ Refresh(ParamsEnv)
    \/ SelectPair(ParamsEnv)
    \/ EditMultiplier(ParamsEnv)

SpecParams == InitParams /\ [][NextParams]_vars

---------------------------------------------------------------------------
(* SpecRender: one run of the script on an empty cache, at any of a set of *)
(* instants of the week, for every answer of the two providers.            *)

\* times of the day around the rollover window and around midnight
DayTimes ==
    { 0, 12 * 3600, 16 * 3600 + 49 * 60, 16 * 3600 + 49 * 60 + 59,
      16 * 3600 + 50 * 60, 17 * 3600, 18 * 3600 + 5 * 60,
      18 * 3600 + 5 * 60 + 59, 18 * 3600 + 6 * 60, 23 * 3600 + 59 * 60 + 59 }

\* Europe/Riga is 7 hours ahead of US/Eastern, 6 in the weeks in which only
\* one of the two zones is on summer time
RigaOffsets == {6 * 3600, 7 * 3600}

InitRender ==
    /\ now \in {d * DAY_SECONDS + s : d \in 0..6, s \in DayTimes}
    /\ rigaOffset \in RigaOffsets
    /\ session_state = <<>>
    /\ query_params = <<>>
    /\ news_cache = <<>>
    /\ market_cache = <<>>
    /\ page = NoPage
    /\ hist = <<>>
    /\ call \in [pair : Pairs, response : NewsResponses, outcome : MarketOutcomes]
    /\ ret = <<>>

Render ==
    /\ ret = <<>>
    /\ \E news \in {fetch_news(call.pair, call.response, now, rigaOffset)},
          market_data \in {get_market_data(symbol_map(call.pair),
                                           get_pip_unit(call.pair), call.outcome)} :
        ret' = [news |-> news, market_data |-> market_data,
                page |-> Compose(init_pair(session_state), query_params, now,
                                 news, market_data).page]
    /\ UNCHANGED <<now, rigaOffset, session_state, query_params, news_cache,
                   market_cache, page, hist, call>>

NextRender == Render

SpecRender == InitRender /\ [][NextRender]_vars

---------------------------------------------------------------------------
(* SpecNews: fetch_news on a calendar of up to MaxRows entries, around noon *)

\* the text of a minute of the day on the calendar page: "11:01 AM"
ClockText(m) ==
    LET h == (m \div 60) % 12
        h12 == IF h = 0 THEN 12 ELSE h
    IN  <<DigitChar(h12 \div 10), DigitChar(h12 % 10), ":",
          DigitChar((m % 60) \div 10), DigitChar(m % 10), " ">>
        \o (IF m < 720 THEN <<"A","M">> ELSE <<"P","M">>)

TextAllDay == <<"A","l","l"," ","D","a","y">>
TextFomc == <<"f","o","m","c"," ","m","i","n","u","t","e","s">>

\* calendar entries: at is the minute of the US/Eastern day, or None for an
\* entry without a time; a short entry is a row of fewer than four cells
CalendarEntries ==
    [at : {Some(10 * 60 + 59), Some(11 * 60), Some(11 * 60 + 1), None},
     currency : {<<"U","S","D">>, <<"E","U","R">>},
     event : {TextFomc, TextRetail},
     short : {FALSE}]
    \cup
    {[at |-> Some(11 * 60), currency |-> <<"U","S","D">>, event |-> TextFomc,
      short |-> TRUE]}

\* the row of an entry as the page lays it out, cells padded with blanks
RowOf(entry) ==
    LET time_cell == IF entry.at = None THEN TextAllDay
                     ELSE ClockText(entry.at[1])
    IN  IF entry.short THEN <<time_cell, entry.currency, <<>>>>
        ELSE <<<<" ">> \o time_cell, entry.currency \o <<" ">>, <<>>,
               <<" ">> \o entry.event \o <<" ">>>>

Calendars ==
    UNION {[1..n -> CalendarEntries] : n \in 0..MaxRows}

InitNews ==
    /\ now \in {12 * 3600, 12 * 3600 + 1}
    /\ rigaOffset = 7 * 3600
    /\ session_state = <<>>
    /\ query_params = <<>>
    /\ news_cache = <<>>
    /\ market_cache = <<>>
    /\ page = NoPage
    /\ hist = <<>>
    /\ call \in [pair : Pairs, calendar : Calendars]
    /\ ret = <<>>

FetchNews ==
    /\ ret = <<>>
    /\ ret' = fetch_news(call.pair,
                         Http(200, [i \in 1..Len(call.calendar) |->
                                        RowOf(call.calendar[i])]),
                         now, rigaOffset)
    /\ UNCHANGED <<now, rigaOffset, session_state, query_params, news_cache,
                   market_cache, page, hist, call>>

NextNews == FetchNews

SpecNews == InitNews /\ [][NextNews]_vars

---------------------------------------------------------------------------
(* SpecATR: get_market_data on a daily series of up to MaxBars bars and on   *)
(* the same series with another last (still forming) bar                   *)

\* a wide day, a narrow day after a gap, and a bar that has just opened
BarSet == {Bar(10950, 10750, 10800), Bar(11010, 11000, 11005),
           Bar(10850, 10850, 10850)}

\* the series of n bars that ends with the bars of tail
SeriesEnding(n, tail) ==
    [i \in 1..n |->
        IF i > n - Len(tail) THEN tail[i - (n - Len(tail))] ELSE BaseBar(i)]

DailySeries ==
    {SeriesEnding(n, tail) :
        n \in 0..MaxBars,
        tail \in UNION {[1..k -> BarSet] : k \in 0..3}}

\* the series with its last bar replaced
WithLast(daily, bar) ==
    [i \in 1..Len(daily) |-> IF i = Len(daily) THEN bar ELSE daily[i]]

InitATR ==
    /\ now = StartTime
    /\ rigaOffset = 7 * 3600
    /\ session_state = <<>>
    /\ query_params = <<>>
    /\ news_cache = <<>>
    /\ market_cache = <<>>
    /\ page = NoPage
    /\ hist = <<>>
    /\ call \in [pair : Pairs,
                 daily : {d \in DailySeries : Len(d) <= MaxBars},
                 live : BarSet]
    /\ ret = <<>>

GetMarketData ==
    /\ ret = <<>>
    /\ ret' = [first |-> get_market_data(symbol_map(call.pair),
                                         get_pip_unit(call.pair),
                                         Data(call.daily, SampleM30)),
               second |-> get_market_data(symbol_map(call.pair),
                                          get_pip_unit(call.pair),
                                          Data(WithLast(call.daily, call.live),
                                               SampleM30))]
    /\ UNCHANGED <<now, rigaOffset, session_state, query_params, news_cache,
                   market_cache, page, hist, call>>

NextATR == GetMarketData

SpecATR == InitATR /\ [][NextATR]_vars

---------------------------------------------------------------------------
(* Properties of one run of the script (SpecRender) *)

Rendered == ret # <<>>

\* the US/Eastern time of the day lies in 16:50:00 .. 18:05:59
InRolloverWindow ==
    /\ now % DAY_SECONDS >= 16 * 3600 + 50 * 60
    /\ now % DAY_SECONDS < 18 * 3600 + 6 * 60

\* Saturday or Sunday in Europe/Riga
IsWeekend == RigaWeekday(now, rigaOffset) \in {5, 6}

\* the market result carries an error, whatever its text
MarketFailed == ret.market_data.error # None

\* the market result carries an error with a non-empty text
MarketFailedWithMessage == MarketFailed /\ ret.market_data.error[1] # ""

NewsUnverified == ret.news[3]
NewsUpcoming == ret.news[1] # <<>>

C3_FailedDataIsUnhealthy ==
    Rendered /\ OutcomeCause(call.outcome) \in {"raise", "empty"} =>
        /\ MarketFailed
        /\ ret.page.master # "SAFE TO TRADE"
        /\ ret.page.momentum = "Data Error"
        /\ ret.page.calc = None
        /\ ~ret.page.fault

---------------------------------------------------------------------------
(* Properties of the page over time (Spec) *)

\* C2: a failed news fetch returns two empty lists and news_error = True, and
\* no run that uses this result, fresh or from the cache, shows SAFE TO TRADE:
\* it shows Connection Failed, or NO TRADE in the rollover window.
C2_FailedNewsIsUnverified ==
    Loaded /\ hist.news.failed =>
        /\ hist.news.value[1] = <<>>
        /\ hist.news.value[2] = <<>>
        /\ hist.news.value[3] = TRUE
        /\ page.master \in {"Connection Failed", "NO TRADE (Rollover)"}

\* a failed news result served from the cache and shown as Connection Failed
C2_Witness ==
    /\ Loaded
    /\ hist.news.failed
    /\ ~hist.news.fetched
    /\ page.master = "Connection Failed"

\* the instant of a displayed event, from its Europe/Riga display time on the
\* US/Eastern day of the run
EventInstant(e) ==
    NyToday(hist.at) + ((e.time * 60 - rigaOffset) % DAY_SECONDS)

\* C6 as stated: at every run, an event shown as upcoming is at most 60
\* minutes in the past at the time of that run.
C6_UpcomingIsCurrent ==
    Loaded =>
        \A i \in 1..Len(page.upcoming) :
            hist.at - EventInstant(page.upcoming[i]) <= 60 * 60

\* C7: a call fetches from the provider exactly when no fetch for its key
\* since the last Refresh is younger than the ttl; a call served from the
\* cache returns what that fetch returned; the run after a Refresh fetches
\* both results again and leaves no other entry in either cache.
C7_CachePerKeyWithTtl ==
    Loaded =>
        /\ hist.market.fetched <=> ~hist.market.fresh
        /\ hist.news.fetched <=> ~hist.news.fresh
        /\ ~hist.market.fetched => hist.market.before = Some(hist.market.value)
        /\ hist.action = "Refresh" =>
            /\ hist.market.fetched
            /\ hist.news.fetched
            /\ DOMAIN market_cache = {hist.market.key}
            /\ DOMAIN news_cache = {hist.news.key}

\* a second call for the key one second before the ttl is over, served from
\* the cache
C7_Witness ==
    /\ Loaded
    /\ hist.at = StartTime + MARKET_TTL - 1
    /\ ~hist.market.fetched
    /\ hist.market.before = Some(hist.market.value)

---------------------------------------------------------------------------
(* Properties of the multipliers (SpecParams) *)

\* the multiplier the next calculation uses
InEffect(widget, param, default) ==
    IF widget \in DOMAIN session_state THEN session_state[widget]
    ELSE QpFloat(query_params, param, default)

\* the value the user entered last, in a widget or in the query string the
\* page was opened with; the default when there is none
Entered(opt, default) == IF opt = None THEN default ELSE opt[1]

\* C10: the multipliers in effect are the ones entered last, through every
\* rerun, refresh, failed run and reload; after an edit both query parameters
\* hold them; a stored parameter is the value in effect; the distances shown
\* are atr_pips times them.
C10_MultipliersPersist ==
    Loaded =>
        /\ InEffect("sl_mult", "sl", DEFAULT_SL) = Entered(hist.entered_sl, DEFAULT_SL)
        /\ InEffect("tp_mult", "tp", DEFAULT_TP) = Entered(hist.entered_tp, DEFAULT_TP)
        /\ hist.action = "Edit" =>
            /\ DOMAIN query_params = {"sl", "tp"}
            /\ query_params.sl = FloatStr(Entered(hist.entered_sl, DEFAULT_SL))
            /\ query_params.tp = FloatStr(Entered(hist.entered_tp, DEFAULT_TP))
        /\ \A k \in DOMAIN query_params :
            ParseFloat(query_params[k]) =
                IF k = "sl" THEN Entered(hist.entered_sl, DEFAULT_SL)
                ELSE Entered(hist.entered_tp, DEFAULT_TP)
        /\ page.calc # None =>
            /\ page.calc[1].sl_dist =
                Times(hist.market.value.atr_pips, Entered(hist.entered_sl, DEFAULT_SL))
            /\ page.calc[1].tp_dist =
                Times(hist.market.value.atr_pips, Entered(hist.entered_tp, DEFAULT_TP))

\* both multipliers were edited, a Refresh dropped the widget state, and the
\* calculator is shown again with the edited values
C10_Witness ==
    /\ hist.action = "Refresh"
    /\ hist.entered_sl = Some(25)
    /\ hist.entered_tp = Some(10)
    /\ page.calc # None
    /\ page.calc[1].tp_dist = Times(hist.market.value.atr_pips, 10)

---------------------------------------------------------------------------
(* Properties of fetch_news (SpecNews) *)

Fetched == ret # <<>>

\* the two currency codes of the selected pair
PairCodes == {SubSeq(call.pair, 1, 3), SubSeq(call.pair, 5, 7)}

\* the entry names a whitelisted event, has four cells, a time, and a
\* currency of the pair
Relevant(entry) ==
    /\ ~entry.short
    /\ entry.currency \in PairCodes
    /\ entry.event = TextFomc
    /\ entry.at # None

\* seconds from the event of the entry to the fetch
SecondsSince(entry) == now - (NyToday(now) + 60 * entry.at[1])

\* what the page lists for the entry: Europe/Riga time, currency, event
Listed(entry) ==
    [time |-> (entry.at[1] + rigaOffset \div 60) % (24 * 60),
     currency |-> entry.currency, event |-> entry.event]

RECURSIVE Select(_, _)
Select(calendar, later) ==
    IF calendar = <<>> THEN <<>>
    ELSE (IF /\ Relevant(Head(calendar))
             /\ (SecondsSince(Head(calendar)) > 60 * 60) = later
          THEN <<Listed(Head(calendar))>> ELSE <<>>)
         \o Select(Tail(calendar), later)

\* C5: the passed list holds, in order, the relevant entries more than 60
\* minutes before the fetch and the upcoming list the other relevant entries:
\* an entry is in at most one list, and in none when its currency is not of
\* the pair.
C5_NewsFilter ==
    Fetched =>
        /\ ret[3] = FALSE
        /\ ret[1] = Select(call.calendar, FALSE)
        /\ ret[2] = Select(call.calendar, TRUE)

\* one relevant entry exactly 60 minutes before the fetch is upcoming, and
\* one second later it is passed
C5_Witness ==
    /\ Fetched
    /\ Len(call.calendar) = 1
    /\ Relevant(call.calendar[1])
    /\ \/ SecondsSince(call.calendar[1]) = 60 * 60 /\ Len(ret[1]) = 1
       \/ SecondsSince(call.calendar[1]) = 60 * 60 + 1 /\ Len(ret[2]) = 1

---------------------------------------------------------------------------
(* Properties of get_market_data (SpecATR) *)

Computed == ret # <<>>

\* C8: two daily series that differ in their last bar alone give the same
\* result: the same error or the same atr_pips.
C8_LastBarDoesNotCount ==
    Computed =>
        /\ ret.first.error = ret.second.error
        /\ ret.first.error = None => ret.first.atr_pips = ret.second.atr_pips

\* a series long enough for an ATR, with two different last bars
C8_Witness ==
    /\ Computed
    /\ call.daily # <<>>
    /\ call.live # call.daily[Len(call.daily)]
    /\ ret.first.error = None
    /\ ~IsNaN(ret.first.atr_pips)
    /\ ret.first.atr_pips.num > 0

\* C9 as stated: fewer than 18 daily bars give an error result, and a result
\* without error has a defined, non-negative atr_pips.
C9_ShortSeriesIsAnError ==
    Computed =>
        /\ Len(call.daily) < 18 => ret.first.error # None
        /\ ret.first.error = None =>
            /\ ~IsNaN(ret.first.atr_pips)
            /\ ret.first.atr_pips.num >= 0

====
